---------------------------- MODULE Spec2Model ----------------------------
(***************************************************************************)
(* Model of tester.py, the UDP traffic generator for the Rust IDS.         *)
(*                                                                         *)
(* A rendered log line is a sequence of text chunks (strings); the line    *)
(* is the concatenation of its chunks, and a character offset is the sum   *)
(* of the lengths of the chunks before it.  Literal pieces of the          *)
(* f-strings are cut so that the CEF marker, the action keyword and every  *)
(* interpolated field is a chunk of its own.  The line terminator "\n" is  *)
(* always a chunk of its own.                                              *)
(*                                                                         *)
(* A log line is a function of what it was rendered from: the scenario,   *)
(* the source IP, the destination port, the clock and the generator state  *)
(* at the time.  The state keeps these (`events`); the code's list `logs`  *)
(* is Logs, their rendering.                                               *)
(*                                                                         *)
(* Time is in milliseconds since the process started (time.time() and      *)
(* datetime.now() read the same clock, `now`).  The random module is a     *)
(* deterministic generator whose state is `rng`; the seed is an input.     *)
(***************************************************************************)
EXTENDS Integers, Sequences, FiniteSets, TLC

VARIABLES
    args,        \* argparse namespace: mode, format, delay (ms), coalesce, ip
    inp,         \* arguments of a directly called function
    out,         \* the line make_log returned to a direct caller
    rng,         \* state of the random module
    now,         \* wall clock, ms
    pc,          \* position of the thread of control
    queue,       \* scenario calls main() still has to make
    scen,        \* scenario function being executed
    src,         \* its src_ip argument
    ports,       \* its local `ports` (or the literal list it iterates)
    events,      \* what each log line of this scenario was rendered from
    idx,         \* 1-based index of the next loop iteration
    sent,        \* its local counter `sent`
    report,      \* the summary line it printed: <<>> or <<[sent, attempted]>>
    sockets,     \* handles of the sockets currently open
    opened,      \* sockets created since the scenario started
    inflight,    \* payload handed to sendto() while the socket is open
    delivered,   \* dispatch calls of this scenario that returned True
    dispatched,  \* history: every dispatch call made, in order
    finished     \* history: every scenario that returned, in order

vars == <<args, inp, out, rng, now, pc, queue, scen, src, ports, events, idx,
          sent, report, sockets, opened, inflight, delivered, dispatched,
          finished>>

---------------------------------------------------------------------------
(* Bounds of the model *)

NumSeeds == 2
MaxRecLen == 2
MaxMsgs == 3

---------------------------------------------------------------------------
(* Constants of the program *)

DEFAULT_SRC_IP == "192.168.11.7"
FW_IP == "192.168.99.1"

COMMON_PORTS ==
    << 21, 22, 23, 25, 53, 80, 110, 135, 139, 143, 443, 445, 993,
       995, 1433, 1521, 3306, 3389, 5432, 5900, 6379, 8080, 8443,
       8888, 9090, 9200, 27017, 27018, 4444, 4445, 6666, 7777,
       2222, 2121, 3000, 4000, 5000, 5001, 7000, 8000, 9000, 9001 >>

FAST_SCAN_PORTS == 20
SLOW_SCAN_PORTS == 35
SLOW_SCAN_RANGE_STOP == 65000
FAST_SCAN_THRESHOLD == 15
SLOW_SCAN_SLEEP_MS == 2000
SHORT_SLEEP_MS == 100
SRC_PORT_MIN == 1024
SRC_PORT_MAX == 65535
NORMAL_REPORTED == 5
DEFAULT_DELAY_MS == 50

FORMAT_CHOICES == {"gaia", "cef"}
MODE_CHOICES == {"fast_scan", "slow_scan", "cef_normal", "normal", "all"}
NORMAL_SRC_IP == "192.168.1.1"
CEF_NORMAL_SRC_IP == "192.168.1.2"
NORMAL_PORTS == <<22, 80, 443, 3306, 5432>>
CEF_NORMAL_PORTS == <<80, 443, 53, 25>>

LF == "\n"
MARKER == "CEF:"

---------------------------------------------------------------------------
(* The random module: a linear congruential generator *)

RngNext(r) == (r * 75 + 74) % 65537

\* random.randint(lo, hi) on generator state r (the state then advances)
RandInt(r, lo, hi) == lo + (r % (hi - lo + 1))

\* mutant: the drawn slot is not refilled (sampling with replacement)
PoolKeep(pool, j, last) == pool

\* Python's pool[j] = pool[n-i-1] inside random.sample: slot j takes the
\* last live element, so no element can be drawn twice
PoolReplace(pool, j, last) == [pool EXCEPT ![j] = pool[last]]

RECURSIVE SamplePool(_, _, _, _)
\* random.sample(population, k), list branch: k draws without replacement.
\* Returns [result, rng].
SamplePool(pool, k, r, acc) ==
    IF k = 0 THEN [result |-> acc, rng |-> r]
    ELSE LET n == Len(pool) - Len(acc)
             j == (r % n) + 1
         IN  SamplePool(PoolReplace(pool, j, n), k - 1, RngNext(r),
                        Append(acc, pool[j]))

RECURSIVE RejectDraw(_, _, _)
\* the `while j in selected: j = randbelow(n)` loop of random.sample
RejectDraw(r, n, selected) ==
    IF (r % n) \in selected THEN RejectDraw(RngNext(r), n, selected)
    ELSE [j |-> r % n, rng |-> RngNext(r)]

RECURSIVE SampleRange(_, _, _, _, _)
\* random.sample(range(start, stop), k), set branch.  Returns [result, rng].
SampleRange(start, stop, k, r, acc) ==
    IF k = 0 THEN [result |-> acc, rng |-> r]
    ELSE LET d == RejectDraw(r, stop - start,
                             {acc[i] - start : i \in 1..Len(acc)})
         IN  SampleRange(start, stop, k - 1, d.rng, Append(acc, start + d.j))

---------------------------------------------------------------------------
(* Log generators *)

Pad2(n) == IF n < 10 THEN "0" \o ToString(n) ELSE ToString(n)

\* datetime.now().strftime("%b %d %H:%M:%S")
Strftime(t) ==
    "Nov 03 " \o Pad2((t \div 3600000) % 24) \o ":"
              \o Pad2((t \div 60000) % 60) \o ":"
              \o Pad2((t \div 1000) % 60)

make_gaia_drop_log(src_ip, dst_port, t, r) ==
    << Strftime(t), " ", FW_IP, " Checkpoint: ", "drop", " ", src_ip, " ",
       "proto: tcp; service: ", ToString(dst_port), "; s_port: ",
       ToString(RandInt(r, SRC_PORT_MIN, SRC_PORT_MAX)) >>

make_gaia_accept_log(src_ip, dst_port, t, r) ==
    << Strftime(t), " ", FW_IP, " Checkpoint: ", "accept", " ", src_ip, " ",
       "proto: tcp; service: ", ToString(dst_port), "; s_port: ",
       ToString(RandInt(r, SRC_PORT_MIN, SRC_PORT_MAX)) >>

\* mutant: the line starts with the CEF body
NoSyslogPrefix(t) == << >>

\* the syslog prefix (timestamp + hostname) in front of the CEF body
SyslogPrefix(t) == << Strftime(t), " firewall " >>

CefBody(name, severity, src_ip, dst_port, act, t) ==
    << MARKER, "0|Checkpoint|VPN-1 & FireWall-1|NGX R65|firewall|",
       name, "|", severity, "|",
       "src=", src_ip, " dst=10.0.0.1 dpt=", ToString(dst_port),
       " act=", act, " ", "proto=TCP rt=", ToString(t) >>

make_cef_drop_log(src_ip, dst_port, t) ==
    SyslogPrefix(t) \o CefBody("Connection Blocked", "7", src_ip, dst_port, "drop", t)

\* mutant: the allow generator copied from the drop generator, action kept
AllowLogWithDropAction(src_ip, dst_port, t) ==
    SyslogPrefix(t) \o CefBody("Connection Allowed", "3", src_ip, dst_port, "drop", t)

make_cef_allow_log(src_ip, dst_port, t) ==
    SyslogPrefix(t) \o CefBody("Connection Allowed", "3", src_ip, dst_port, "Allow", t)

make_log(src_ip, dst_port, fmt, drop, t, r) ==
    IF fmt = "cef"
    THEN IF drop THEN make_cef_drop_log(src_ip, dst_port, t)
                 ELSE make_cef_allow_log(src_ip, dst_port, t)
    ELSE IF drop THEN make_gaia_drop_log(src_ip, dst_port, t, r)
                 ELSE make_gaia_accept_log(src_ip, dst_port, t, r)

\* generator state after make_log: only the Gaia generators call randint
RngAfterLog(fmt, r) == IF fmt = "cef" THEN r ELSE RngNext(r)


---------------------------------------------------------------------------
(* Dispatch *)

\* (message + "\n"), the datagram of send_udp
Encode(message) == message \o <<LF>>

RECURSIVE Join(_, _)
\* sep.join(messages)
Join(messages, sep) ==
    IF messages = <<>> THEN <<>>
    ELSE IF Len(messages) = 1 THEN Head(messages)
    ELSE Head(messages) \o sep \o Join(Tail(messages), sep)

\* mutant: the records are concatenated without a separator
CombinedNoSeparator(messages) == Join(messages, << >>) \o <<LF>>

\* "\n".join(messages) + "\n", the datagram of send_udp_coalesced
Combined(messages) == Join(messages, <<LF>>) \o <<LF>>

\* mutant: the socket is closed on the success path only
CloseOnSuccessOnly(socks, h, ok) == IF ok THEN socks \ {h} ELSE socks

\* leaving `with socket.socket(...) as sock:` closes the socket, whether the
\* block returned (ok) or raised
WithExit(socks, h, ok) == socks \ {h}

\* mutant: a successful batch counted as one send
CoalescedSentOne(ok, batch) == IF ok THEN 1 ELSE 0

\* `if send_udp_coalesced(...): sent = len(logs)` after `sent = 0`
CoalescedSent(ok, batch) == IF ok THEN Len(batch) ELSE 0

\* `if send_udp(...): sent += 1`; only the two scan scenarios keep a counter
CountSent(s, n, ok) ==
    IF s \in {"fast_scan", "slow_scan"} /\ ok THEN n + 1 ELSE n

\* the argument of the time.sleep() that ends each loop iteration
SleepOf(s) ==
    CASE s = "fast_scan" -> args.delay
      [] s = "slow_scan" -> SLOW_SCAN_SLEEP_MS
      [] OTHER -> SHORT_SLEEP_MS

\* time.sleep raises ValueError for a negative length
SleepRaises(d) == d < 0

---------------------------------------------------------------------------
(* Scenarios *)

Min(a, b) == IF a < b THEN a ELSE b

IsCoalesced == scen = "fast_scan" /\ args.coalesce

\* test_fast_scan renders every log before the first send; the other
\* scenarios render inside the loop
RenderedUpFront == scen = "fast_scan"

\* the log line a scenario renders for destination port p
RenderFor(s, ip, p, t, r) ==
    IF s = "cef_normal" THEN make_cef_allow_log(ip, p, t)
    ELSE make_log(ip, p, args.format, TRUE, t, r)

RngAfterRender(s, r) ==
    IF s = "cef_normal" THEN r ELSE RngAfterLog(args.format, r)

\* what the log line for port p, rendered at time t with the generator in
\* state r, is rendered from
Event(p, t, r) == [port |-> p, t |-> t, r |-> r]

RECURSIVE RenderAll(_, _, _, _, _)
\* [make_log(src_ip, p, log_format, drop=True) for p in ports]: one event
\* per port, the generator advancing from one line to the next.
\* Returns [events, rng].
RenderAll(s, ps, t, r, acc) ==
    IF ps = <<>> THEN [events |-> acc, rng |-> r]
    ELSE RenderAll(s, Tail(ps), t, RngAfterRender(s, r),
                   Append(acc, Event(Head(ps), t, r)))

\* the list `logs` of the running scenario: the lines rendered so far
Logs ==
    [ i \in 1..Len(events) |->
        RenderFor(scen, src, events[i].port, events[i].t, events[i].r) ]

\* the summary line a scenario prints before it returns
Report(s, n, batch) ==
    CASE s = "fast_scan" -> << [sent |-> n, attempted |-> Len(batch)] >>
      [] s = "slow_scan" -> << [sent |-> n, attempted |-> SLOW_SCAN_PORTS] >>
      [] s = "normal"    -> << [sent |-> NORMAL_REPORTED,
                                attempted |-> NORMAL_REPORTED] >>
      [] OTHER           -> << >>

\* the scenario calls main() makes for a mode, in order
Plan(a) ==
    CASE a.mode = "fast_scan"  -> << [fn |-> "fast_scan", ip |-> a.ip] >>
      [] a.mode = "slow_scan"  -> << [fn |-> "slow_scan", ip |-> a.ip] >>
      [] a.mode = "cef_normal" -> << [fn |-> "cef_normal", ip |-> a.ip] >>
      [] a.mode = "normal"     -> << [fn |-> "normal", ip |-> a.ip] >>
      [] OTHER -> << [fn |-> "normal", ip |-> NORMAL_SRC_IP],
                     [fn |-> "cef_normal", ip |-> CEF_NORMAL_SRC_IP],
                     [fn |-> "fast_scan", ip |-> a.ip] >>

---------------------------------------------------------------------------
(* Inputs *)

Formats == FORMAT_CHOICES \cup {"xml"}
Delays == {-50, 0, 50}
SourceIps == {DEFAULT_SRC_IP, NORMAL_SRC_IP}

\* --delay and --coalesce are read by test_fast_scan alone: the modes that
\* never call it are run with the defaults of both
ReadsDelay(mode) == mode \in {"fast_scan", "all"}

ArgSpace ==
    { a \in [mode : MODE_CHOICES, format : Formats, delay : Delays,
             coalesce : BOOLEAN, ip : SourceIps] :
        ReadsDelay(a.mode) \/ (a.delay = DEFAULT_DELAY_MS /\ ~a.coalesce) }

NoArgs == [mode |-> "none", format |-> "gaia", delay |-> 0,
           coalesce |-> FALSE, ip |-> ""]
NoInput == [src_ip |-> "", dst_port |-> 0, fmt |-> "gaia", drop |-> TRUE]

Idle ==
    /\ queue = <<>> /\ scen = "none" /\ src = "" /\ ports = <<>>
    /\ events = <<>>
    /\ idx = 0 /\ sent = 0 /\ report = <<>> /\ sockets = {} /\ opened = 0
    /\ inflight = <<>> /\ delivered = 0 /\ dispatched = <<>>
    /\ finished = <<>>

---------------------------------------------------------------------------
(* main() and the scenario functions *)

Init ==
    /\ args \in ArgSpace
    /\ inp = NoInput
    /\ out = <<>>
    /\ rng \in 1..NumSeeds
    /\ now = 0
    /\ pc = "main"
    /\ Idle

\* parser.parse_args(): --format has choices=["gaia", "cef"]; anything
\* else ends the process with a usage error.  --delay is any float.
ArgparseReject ==
    /\ pc = "main"
    /\ args.format \notin FORMAT_CHOICES
    /\ pc' = "usage_error"
    /\ UNCHANGED <<args, inp, out, rng, now, queue, scen, src, ports, events,
                   idx, sent, report, sockets, opened, inflight, delivered,
                   dispatched, finished>>

\* the if/elif chain on args.mode
MainDispatch ==
    /\ pc = "main"
    /\ args.format \in FORMAT_CHOICES
    /\ queue' = Plan(args)
    /\ pc' = "call"
    /\ UNCHANGED <<args, inp, out, rng, now, scen, src, ports, events, idx,
                   sent, report, sockets, opened, inflight, delivered,
                   dispatched, finished>>

\* main() calls the next scenario function; the function prints its banner
ScenarioStart ==
    /\ pc \in {"call", "done"}
    /\ queue # <<>>
    /\ scen' = Head(queue).fn
    /\ src' = Head(queue).ip
    /\ queue' = Tail(queue)
    /\ ports' = <<>> /\ events' = <<>> /\ idx' = 0 /\ sent' = 0
    /\ report' = <<>> /\ opened' = 0 /\ delivered' = 0
    /\ pc' = "start"
    /\ UNCHANGED <<args, inp, out, rng, now, sockets, inflight, dispatched,
                   finished>>

\* ports = random.sample(...); logs = [...]; sent = 0
Generate ==
    /\ pc = "start"
    /\ LET smp == CASE scen = "fast_scan" ->
                         SamplePool(COMMON_PORTS,
                                    Min(FAST_SCAN_PORTS, Len(COMMON_PORTS)),
                                    rng, <<>>)
                    [] scen = "slow_scan" ->
                         SampleRange(1, SLOW_SCAN_RANGE_STOP,
                                     SLOW_SCAN_PORTS, rng, <<>>)
                    [] scen = "normal" ->
                         [result |-> NORMAL_PORTS, rng |-> rng]
                    [] OTHER ->
                         [result |-> CEF_NORMAL_PORTS, rng |-> rng]
           rnd == IF RenderedUpFront
                  THEN RenderAll(scen, smp.result, now, smp.rng, <<>>)
                  ELSE [events |-> <<>>, rng |-> smp.rng]
       IN  /\ ports' = smp.result
           /\ events' = rnd.events
           /\ rng' = rnd.rng
    /\ idx' = 1
    /\ sent' = 0
    /\ pc' = "dispatch"
    /\ UNCHANGED <<args, inp, out, now, queue, scen, src, report, sockets,
                   opened, inflight, delivered, dispatched, finished>>

\* the log line of loop iteration idx
CurrentLog ==
    IF RenderedUpFront THEN Logs[idx]
    ELSE RenderFor(scen, src, ports[idx], now, rng)

\* a dispatch call: the function called and the slice of `logs` passed
Call(fn, first, n) ==
    [scen |-> scen, src |-> src, fn |-> fn, first |-> first, n |-> n]

\* the head of a loop iteration up to the call of send_udp
LoopHead ==
    /\ pc = "dispatch"
    /\ ~IsCoalesced
    /\ idx <= Len(ports)
    /\ events' = IF RenderedUpFront THEN events
                 ELSE Append(events, Event(ports[idx], now, rng))
    /\ rng' = IF RenderedUpFront THEN rng ELSE RngAfterRender(scen, rng)
    /\ dispatched' = Append(dispatched, Call("send_udp", idx, 1))

\* the rest of the iteration once send_udp returned ok: count, sleep, next
LoopTail(ok) ==
    /\ sent' = CountSent(scen, sent, ok)
    /\ delivered' = delivered + (IF ok THEN 1 ELSE 0)
    /\ IF SleepRaises(SleepOf(scen))
       THEN /\ pc' = "crashed"
            /\ UNCHANGED <<now, idx>>
       ELSE /\ now' = now + SleepOf(scen)
            /\ idx' = idx + 1
            /\ pc' = IF idx + 1 > Len(ports) THEN "summary" ELSE "dispatch"

\* send_udp: socket.socket() succeeds, the payload is encoded
SendUdpOpen ==
    /\ LoopHead
    /\ opened' = opened + 1
    /\ sockets' = sockets \cup {opened + 1}
    /\ inflight' = Encode(CurrentLog)
    /\ pc' = "sendto"
    /\ UNCHANGED <<args, inp, out, now, queue, scen, src, ports, idx, sent,
                   report, delivered, finished>>

\* send_udp: socket.socket() raises; the except clause returns False
SendUdpSocketError ==
    /\ LoopHead
    /\ LoopTail(FALSE)
    /\ UNCHANGED <<args, inp, out, queue, scen, src, ports, report, sockets,
                   opened, inflight, finished>>

\* send_udp: sendto() returns (True) or raises (False); the with block ends
SendUdpSendto ==
    /\ pc = "sendto"
    /\ ~IsCoalesced
    /\ \E ok \in BOOLEAN :
          /\ sockets' = WithExit(sockets, opened, ok)
          /\ LoopTail(ok)
    /\ inflight' = <<>>
    /\ UNCHANGED <<args, inp, out, rng, queue, scen, src, ports, events,
                   report, opened, dispatched, finished>>

\* the call of send_udp_coalesced(host, port, logs, verbose)
CoalescedHead ==
    /\ pc = "dispatch"
    /\ IsCoalesced
    /\ dispatched' = Append(dispatched,
                            Call("send_udp_coalesced", 1, Len(Logs)))

\* after send_udp_coalesced returned ok
CoalescedTail(ok) ==
    /\ sent' = CoalescedSent(ok, Logs)
    /\ delivered' = delivered + (IF ok THEN 1 ELSE 0)
    /\ idx' = Len(ports) + 1
    /\ pc' = "summary"

SendCoalescedOpen ==
    /\ CoalescedHead
    /\ opened' = opened + 1
    /\ sockets' = sockets \cup {opened + 1}
    /\ inflight' = Combined(Logs)
    /\ pc' = "sendto"
    /\ UNCHANGED <<args, inp, out, rng, now, queue, scen, src, ports, events,
                   idx, sent, report, delivered, finished>>

SendCoalescedSocketError ==
    /\ CoalescedHead
    /\ CoalescedTail(FALSE)
    /\ UNCHANGED <<args, inp, out, rng, now, queue, scen, src, ports, events,
                   report, sockets, opened, inflight, finished>>

SendCoalescedSendto ==
    /\ pc = "sendto"
    /\ IsCoalesced
    /\ \E ok \in BOOLEAN :
          /\ sockets' = WithExit(sockets, opened, ok)
          /\ CoalescedTail(ok)
    /\ inflight' = <<>>
    /\ UNCHANGED <<args, inp, out, rng, now, queue, scen, src, ports, events,
                   report, opened, dispatched, finished>>

\* the closing prints of a scenario function, and its return
ScenarioReturn ==
    /\ pc = "summary"
    /\ report' = Report(scen, sent, Logs)
    /\ finished' = Append(finished, [scen |-> scen, src |-> src])
    /\ pc' = "done"
    /\ UNCHANGED <<args, inp, out, rng, now, queue, scen, src, ports, events,
                   idx, sent, sockets, opened, inflight, delivered,
                   dispatched>>

\* main() returns after the last scenario
MainExit ==
    /\ pc = "done"
    /\ queue = <<>>
    /\ pc' = "exit"
    /\ UNCHANGED <<args, inp, out, rng, now, queue, scen, src, ports, events,
                   idx, sent, report, sockets, opened, inflight, delivered,
                   dispatched, finished>>

Next ==
    \/ ArgparseReject
    \/ MainDispatch
    \/ ScenarioStart
    \/ Generate
    \/ SendUdpOpen
    \/ SendUdpSocketError
    \/ SendUdpSendto
    \/ SendCoalescedOpen
    \/ SendCoalescedSocketError
    \/ SendCoalescedSendto
    \/ ScenarioReturn
    \/ MainExit

Spec == Init /\ [][Next]_vars

---------------------------------------------------------------------------
(* make_log called directly, on arguments of the caller's choice *)

RenderIps == {DEFAULT_SRC_IP, "10.0.0.5", MARKER}
RenderPorts == {22, 443, 65535}
RenderTimes == {0, 59999, 3600000}

InitRender ==
    /\ args = NoArgs
    /\ inp \in [src_ip : RenderIps, dst_port : RenderPorts, fmt : Formats,
                drop : BOOLEAN]
    /\ rng \in 1..NumSeeds
    /\ now \in RenderTimes
    /\ out = <<>>
    /\ pc = "render_call"
    /\ Idle

RenderCall ==
    /\ pc = "render_call"
    /\ out' = make_log(inp.src_ip, inp.dst_port, inp.fmt, inp.drop, now, rng)
    /\ rng' = RngAfterLog(inp.fmt, rng)
    /\ pc' = "rendered"
    /\ UNCHANGED <<args, inp, now, queue, scen, src, ports, events, idx,
                   sent, report, sockets, opened, inflight, delivered,
                   dispatched, finished>>

NextRender == RenderCall

SpecRender == InitRender /\ [][NextRender]_vars

---------------------------------------------------------------------------
(* send_udp_coalesced called directly, on a list of the caller's choice *)

Alphabet == {"a", LF}
Records == UNION { [1..n -> Alphabet] : n \in 0..MaxRecLen }
MsgLists == UNION { [1..n -> Records] : n \in 0..MaxMsgs }

InitCoalesce ==
    /\ args = NoArgs
    /\ inp \in [messages : MsgLists]
    /\ out = <<>>
    /\ rng = 1
    /\ now = 0
    /\ pc = "coalesce_call"
    /\ Idle

\* combined is built, socket.socket() succeeds
DirectCoalescedOpen ==
    /\ pc = "coalesce_call"
    /\ dispatched' = Append(dispatched,
                            Call("send_udp_coalesced", 1, Len(inp.messages)))
    /\ opened' = opened + 1
    /\ sockets' = sockets \cup {opened + 1}
    /\ inflight' = Combined(inp.messages)
    /\ pc' = "coalesce_sendto"
    /\ UNCHANGED <<args, inp, out, rng, now, queue, scen, src, ports, events,
                   idx, sent, report, delivered, finished>>

\* socket.socket() raises; the except clause returns False
DirectCoalescedSocketError ==
    /\ pc = "coalesce_call"
    /\ dispatched' = Append(dispatched,
                            Call("send_udp_coalesced", 1, Len(inp.messages)))
    /\ pc' = "coalesce_returned"
    /\ UNCHANGED <<args, inp, out, rng, now, queue, scen, src, ports, events,
                   idx, sent, report, sockets, opened, inflight, delivered,
                   finished>>

\* sendto() returns (True) or raises (False); the with block ends
DirectCoalescedSendto ==
    /\ pc = "coalesce_sendto"
    /\ \E ok \in BOOLEAN :
          /\ sockets' = WithExit(sockets, opened, ok)
          /\ delivered' = delivered + (IF ok THEN 1 ELSE 0)
    /\ inflight' = <<>>
    /\ pc' = "coalesce_returned"
    /\ UNCHANGED <<args, inp, out, rng, now, queue, scen, src, ports, events,
                   idx, sent, report, opened, dispatched, finished>>

NextCoalesce ==
    \/ DirectCoalescedOpen
    \/ DirectCoalescedSocketError
    \/ DirectCoalescedSendto

SpecCoalesce == InitCoalesce /\ [][NextCoalesce]_vars

---------------------------------------------------------------------------
(* What a receiver does with a datagram or a line *)

\* the records of a payload: each run of chunks that ends at a line
\* terminator, in order (and a last unterminated run, when there is one)
SplitLines(p) ==
    LET ends == { i \in 1..Len(p) : p[i] = LF }
        last == IF ends = {} THEN 0
                ELSE CHOOSE e \in ends : \A t \in ends : t <= e
        Kth(k) == CHOOSE e \in ends : Cardinality({ t \in ends : t <= e }) = k
        From(e) == IF \A t \in ends : t >= e THEN 1
                   ELSE 1 + CHOOSE b \in ends :
                              /\ b < e
                              /\ \A t \in ends : t < e => t <= b
        whole == [ k \in 1..Cardinality(ends) |->
                     SubSeq(p, From(Kth(k)), Kth(k) - 1) ]
    IN  IF last = Len(p) THEN whole
        ELSE Append(whole, SubSeq(p, last + 1, Len(p)))

\* index of the first chunk of line equal to key, from k on; 0 when none
FindChunk(line, key, k) ==
    LET hits == { i \in k..Len(line) : line[i] = key }
    IN  IF hits = {} THEN 0 ELSE CHOOSE i \in hits : \A h \in hits : i <= h

RECURSIVE CharLen(_)
CharLen(line) == IF line = <<>> THEN 0 ELSE Len(Head(line)) + CharLen(Tail(line))

\* line.find("CEF:"): character offset of the first marker, -1 when none
MarkerOffset(line) ==
    LET k == FindChunk(line, MARKER, 1)
    IN  IF k = 0 THEN -1 ELSE CharLen(SubSeq(line, 1, k - 1))

\* line[line.find("CEF:"):]
FromMarker(line) == SubSeq(line, FindChunk(line, MARKER, 1), Len(line))

\* the chunk that follows the first chunk equal to key ("" when none)
FieldAfter(line, key) ==
    LET k == FindChunk(line, key, 1)
    IN  IF k = 0 \/ k = Len(line) THEN "" ELSE line[k + 1]

IsCefLine(line) == FindChunk(line, MARKER, 1) # 0

\* the action keyword of a rendered line
ActionOf(line) ==
    IF IsCefLine(line) THEN FieldAfter(line, " act=")
    ELSE FieldAfter(line, " Checkpoint: ")

\* the destination port of a rendered line
DstPortOf(line) ==
    IF IsCefLine(line) THEN FieldAfter(line, " dst=10.0.0.1 dpt=")
    ELSE FieldAfter(line, "proto: tcp; service: ")

BLOCKING_ACTION == "drop"

CommonPortSet == { COMMON_PORTS[k] : k \in 1..Len(COMMON_PORTS) }

NewlineFree(rec) == \A i \in 1..Len(rec) : rec[i] # LF

\* the dispatch calls made by the scenario now running
RunCalls == SelectSeq(dispatched, LAMBDA c : c.scen = scen)

\* the lines a dispatch call of the running scenario was given
CallMsgs(c) == SubSeq(Logs, c.first, c.first + c.n - 1)

Returned == pc \in {"done", "exit"}

---------------------------------------------------------------------------
(* Claims *)

\* C1 (as stated): send_udp_coalesced of any list of N records hands the
\* transport one payload whose split on the line terminator is the N
\* records of the list, in order.
C1_AnyListRoundTrips ==
    /\ opened <= 1
    /\ pc = "coalesce_sendto" =>
          /\ Len(SplitLines(inflight)) = Len(inp.messages)
          /\ SplitLines(inflight) = inp.messages

\* C1 (amended): for a non-empty list of newline-free records, the one
\* payload of send_udp_coalesced splits on the line terminator into exactly
\* the records of the list, in order; at most one payload is ever handed to
\* the transport, and exactly one when the call returns success.
C1_NonEmptyNewlineFreeRoundTrips ==
    /\ opened <= 1
    /\ Len(dispatched) <= 1
    /\ (pc = "coalesce_returned" /\ delivered = 1) => opened = 1
    /\ (/\ pc = "coalesce_sendto"
        /\ inp.messages # <<>>
        /\ \A i \in 1..Len(inp.messages) : NewlineFree(inp.messages[i])) =>
          /\ Len(SplitLines(inflight)) = Len(inp.messages)
          /\ SplitLines(inflight) = inp.messages

C1_Witness ==
    /\ pc = "coalesce_sendto"
    /\ Len(inp.messages) >= 2
    /\ \A i \in 1..Len(inp.messages) : NewlineFree(inp.messages[i])
    /\ inp.messages[1] # inp.messages[2]
    /\ SplitLines(inflight) = inp.messages

\* C2: a run started with an unknown format or a non-positive delay sends
\* no datagram (the transport accepts none) and never runs a scenario to
\* its end.
C2_InvalidParametersRejected ==
    (args.format \notin FORMAT_CHOICES \/ args.delay <= 0) =>
        /\ delivered = 0
        /\ ~Returned

\* C3: when a scenario returns, its summary reports sent/attempted with
\* sent = the events whose dispatch returned success and attempted = the
\* events dispatched.
C3_SummaryCountsFailures ==
    pc = "done" =>
        report = << [sent |-> IF IsCoalesced THEN delivered * Len(events)
                              ELSE delivered,
                     attempted |-> Len(ports)] >>

\* C4: an individually dispatched scenario run never aborts: the events
\* dispatched so far are the generated events, each once, in generation
\* order, each as the one record of its datagram, and when the run is DONE
\* all N were attempted.
C4_IndividualRunCompletes ==
    (scen # "none" /\ ~IsCoalesced) =>
        /\ pc # "crashed"
        /\ Len(RunCalls) <= Len(ports)
        /\ \A i \in 1..Len(RunCalls) : RunCalls[i] = Call("send_udp", i, 1)
        /\ pc = "sendto" =>
              /\ Len(RunCalls) = idx
              /\ inflight = Encode(Logs[idx])
              /\ DstPortOf(Logs[idx]) = ToString(ports[idx])
        /\ Returned => Len(RunCalls) = Len(ports)

ScenarioRank(s) ==
    CASE s = "normal" -> 1 [] s = "cef_normal" -> 2 [] OTHER -> 3

\* C6: in mode "all" the dispatches of normal, cef_normal and fast_scan
\* come strictly in that order, and dispatches of different sub-scenarios
\* never carry the same source identity.
C6_CompositeSequentialDistinctSources ==
    args.mode = "all" =>
        \A i, j \in 1..Len(dispatched) :
            /\ i < j => ScenarioRank(dispatched[i].scen)
                          <= ScenarioRank(dispatched[j].scen)
            /\ dispatched[i].scen # dispatched[j].scen
                  => dispatched[i].src # dispatched[j].src

\* C7 (as stated): a scenario run creates one socket, uses it for all its
\* dispatches, and no socket is open once it has returned.
C7_OneSocketPerRun ==
    /\ opened <= 1
    /\ pc \in {"done", "exit", "crashed"} => sockets = {}

\* C7 (amended): every dispatch call creates a socket of its own and
\* releases it before it returns, whether sendto succeeded or raised: a
\* socket is open only while its one sendto is in progress, never two at a
\* time, a run creates at most one socket per dispatch call, and none is
\* open when the scenario returns or aborts.
C7_SocketPerDispatchReleased ==
    /\ Cardinality(sockets) <= 1
    /\ pc = "sendto" => sockets = {opened}
    /\ pc # "sendto" => sockets = {}
    /\ scen # "none" => opened <= Len(RunCalls)
    /\ (scen # "none" /\ pc # "sendto") => delivered <= opened

C7_Witness ==
    /\ pc = "done"
    /\ opened >= 2
    /\ delivered < opened
    /\ sockets = {}

\* C8: in coalesced mode one send is attempted and the sent count is all
\* or nothing: N when that send succeeded, 0 when it failed, and reported
\* so.
C8_CoalescedAllOrNothing ==
    IsCoalesced =>
        /\ sent \in {0, Len(events)}
        /\ Len(RunCalls) <= 1
        /\ opened <= 1
        /\ pc \in {"summary", "done", "exit"} =>
              /\ Len(RunCalls) = 1
              /\ Len(events) = FAST_SCAN_PORTS
              /\ delivered = 1 => sent = Len(events)
              /\ delivered = 0 => sent = 0
        /\ Returned =>
              report = << [sent |-> sent, attempted |-> Len(events)] >>

C8_Witness ==
    /\ IsCoalesced
    /\ pc = "done"
    /\ delivered = 1
    /\ sent = FAST_SCAN_PORTS

\* C9: in a CEF line the marker never starts at offset zero, and the line
\* from the first marker on is exactly the CEF body, for every source IP,
\* destination port and action.
C9_MarkerAfterPrefix ==
    (pc = "rendered" /\ inp.fmt = "cef") =>
        /\ MarkerOffset(out) > 0
        /\ FromMarker(out) =
              IF inp.drop
              THEN CefBody("Connection Blocked", "7", inp.src_ip,
                           inp.dst_port, "drop", now)
              ELSE CefBody("Connection Allowed", "3", inp.src_ip,
                           inp.dst_port, "Allow", now)
        /\ CharLen(out) = MarkerOffset(out) + CharLen(FromMarker(out))

C9_Witness ==
    /\ pc = "rendered"
    /\ inp.fmt = "cef"
    /\ ~inp.drop
    /\ inp.src_ip = MARKER
    /\ MarkerOffset(out) = 25

\* C10: no record the allow scenario renders or hands to the transport
\* carries the blocking action: each carries the action Allow.
C10_AllowNeverBlocking ==
    scen = "cef_normal" =>
      LET logs == Logs IN
        /\ \A i \in 1..Len(logs) :
              /\ ActionOf(logs[i]) # BLOCKING_ACTION
              /\ ActionOf(logs[i]) = "Allow"
        /\ \A i \in 1..Len(RunCalls) :
              /\ RunCalls[i].src = src
              /\ CallMsgs(RunCalls[i]) = << logs[i] >>
        /\ pc = "sendto" =>
              /\ Len(SplitLines(inflight)) = 1
              /\ ActionOf(SplitLines(inflight)[1]) # BLOCKING_ACTION

C10_Witness ==
    /\ scen = "cef_normal"
    /\ pc = "done"
    /\ args.format = "gaia"
    /\ Len(RunCalls) = Len(CEF_NORMAL_PORTS)

=============================================================================
